---------------------------- MODULE Spec2Model ----------------------------
(***************************************************************************)
(* Model of Assignment2/Danko_Danila_HA2.py: forward kinematics of a 6-DOF *)
(* arm from its DH table, the geometric Jacobian, the decomposition of a   *)
(* homogeneous transform into a pose, and the differential inverse         *)
(* kinematics solve that hands a vector field to odeint.                   *)
(*                                                                         *)
(* Numbers.  The code computes in float64.  A number of the model is       *)
(*   <<num, den>>     the rational num/den (den > 0, lowest terms),        *)
(*   <<0, 1>>, <<0, -1>>   the zeros 0.0 and -0.0,                         *)
(*   <<num, den, k>>  the rounding residue (num/den) * e^k, k # 0, where   *)
(*                    e = np.cos(pi/2) = 6.1e-17,                          *)
(*   <<num, den, k, s>>   (num/den) * e^k * sqrt(s), s > 1 squarefree.     *)
(* A sum keeps the term of the lowest order, as a float sum absorbs a term *)
(* below the last bit of the other; sums of one order and products are     *)
(* exact.  A result agrees with the float up to its last bits, and the     *)
(* signs and ratios of the residues, from which the decomposition reads    *)
(* its angles at a gimbal lock, are those of the floats.                   *)
(*                                                                         *)
(* Angles.  An angle is the direction <<x, y>> of the point it names on    *)
(* the circle (angle = atan2(y, x)), x and y coprime integers.  <<-1, 0>>  *)
(* is pi and <<-1, 0, -1>> is -pi.  <<0, y, j>> is the float j places      *)
(* after the quarter turn <<0, y>>, away from 0 (before it for j < 0).     *)
(* <<x, y, a, b>> is the direction (x * sqrt(a), y * sqrt(b)), a and b     *)
(* squarefree and coprime, not both 1.                                     *)
(*                                                                         *)
(* Matrices are sequences of rows.  The source indexes from 0; At and Col3 *)
(* take the source's 0-based indices.                                      *)
(***************************************************************************)
EXTENDS Integers, Sequences, FiniteSets, TLC

(***************************************************************************)
(* Rational arithmetic                                                     *)
(***************************************************************************)
Abs(x) == IF x < 0 THEN -x ELSE x

Sgn(x) == IF x < 0 THEN -1 ELSE IF x = 0 THEN 0 ELSE 1

Min(a, b) == IF a < b THEN a ELSE b

Max(a, b) == IF a < b THEN b ELSE a

RECURSIVE GCD(_, _)
GCD(a, b) == IF b = 0 THEN a ELSE GCD(b, a % b)

Frac(num, den) ==
  LET g == GCD(Abs(num), Abs(den))
      s == IF den < 0 THEN -1 ELSE 1
  IN  <<(s * num) \div g, (s * den) \div g>>

R(x) == <<x, 1>>

\* the element of a singleton.  The({e(v) : v \in {d}}) is e at the value of
\* d, computed once, as after the assignment v = d
The(S) == CHOOSE x \in S : TRUE

\* the sum and the product of two rationals
QAdd(a, b) ==
  IF a[2] = 1 /\ b[2] = 1 THEN <<a[1] + b[1], 1>>
  ELSE LET g == GCD(a[2], b[2])
       IN  Frac(a[1] * (b[2] \div g) + b[1] * (a[2] \div g), (a[2] \div g) * b[2])

QMul(a, b) ==
  IF a[2] = 1 /\ b[2] = 1 THEN <<a[1] * b[1], 1>>
  ELSE LET g1 == GCD(Abs(a[1]), b[2])
           g2 == GCD(Abs(b[1]), a[2])
       IN  Frac((a[1] \div g1) * (b[1] \div g2), (a[2] \div g2) * (b[2] \div g1))

\* a/b < c/d for a, c >= 0 and b, d > 0, by continued fractions (no products,
\* so the comparison with eps stays inside TLC's integers)
RECURSIVE FracLess(_, _, _, _)
FracLess(a, b, c, d) ==
  IF a \div b # c \div d THEN a \div b < c \div d
  ELSE IF c % d = 0 THEN FALSE
  ELSE IF a % b = 0 THEN TRUE
  ELSE FracLess(d, c % d, b, a % b)

(***************************************************************************)
(* float64 arithmetic                                                      *)
(***************************************************************************)
\* the order k of c * e^k * sqrt(s)
Ord(a) == IF Len(a) >= 3 THEN a[3] ELSE 0

\* its radicand s
Rad(a) == IF Len(a) = 4 THEN a[4] ELSE 1

Coef(a) == <<a[1], a[2]>>

Mk(c, ord, rad) ==
  IF c[1] = 0 THEN c
  ELSE IF rad # 1 THEN <<c[1], c[2], ord, rad>>
  ELSE IF ord # 0 THEN <<c[1], c[2], ord>>
  ELSE c

\* the sign bit of a float, as 1 or -1
SignOf(a) == IF a[1] = 0 THEN a[2] ELSE Sgn(a[1])

\* x / 0.0: numpy warns and returns inf or nan
NaR == <<1, 0>>

IsNaR(a) == a[2] = 0

\* terms of one order are multiples of one root in every sum the model forms
RAdd(a, b) ==
  IF IsNaR(a) \/ IsNaR(b) THEN NaR
  ELSE IF a[1] = 0
       THEN IF b[1] = 0 THEN <<0, IF a[2] < 0 /\ b[2] < 0 THEN -1 ELSE 1>> ELSE b
  ELSE IF b[1] = 0 THEN a
  ELSE IF Ord(a) < Ord(b) THEN a
  ELSE IF Ord(b) < Ord(a) THEN b
  ELSE CASE Rad(a) = Rad(b) -> Mk(QAdd(Coef(a), Coef(b)), Ord(a), Rad(a))

RNeg(a) == IF a[1] = 0 THEN <<0, -a[2]>> ELSE [a EXCEPT ![1] = -a[1]]

RSub(a, b) == RAdd(a, RNeg(b))

\* sqrt(s) * sqrt(t) = g * sqrt((s/g) * (t/g)) for g = gcd(s, t)
RMul(a, b) ==
  IF IsNaR(a) \/ IsNaR(b) THEN NaR
  ELSE IF a[1] = 0 \/ b[1] = 0 THEN <<0, SignOf(a) * SignOf(b)>>
  ELSE LET g == GCD(Rad(a), Rad(b))
       IN  Mk(QMul(QMul(Coef(a), Coef(b)), R(g)), Ord(a) + Ord(b),
              (Rad(a) \div g) * (Rad(b) \div g))

\* 1 / (c * sqrt(t)) = sqrt(t) / (c * t)
RDiv(a, b) ==
  IF IsNaR(a) \/ IsNaR(b) \/ b[1] = 0 THEN NaR
  ELSE IF a[1] = 0 THEN <<0, SignOf(a) * SignOf(b)>>
  ELSE LET g == GCD(Rad(a), Rad(b))
       IN  Mk(QMul(QMul(Coef(a), Frac(Sgn(b[1]) * b[2], Abs(b[1]) * Rad(b))), R(g)),
              Ord(a) - Ord(b), (Rad(a) \div g) * (Rad(b) \div g))

RAbs(a) == IF a[1] = 0 THEN <<0, 1>> ELSE [a EXCEPT ![1] = Abs(a[1])]

\* the integer part of the square root
Floor2(x) == CHOOSE r \in 0..x : r * r <= x /\ x < (r + 1) * (r + 1)

\* the sign of (m + sqrt(N))/d - p/q, for N no square, by the continued
\* fractions of the two (no products of the operands): where the integer
\* parts agree, the order of the remainders' reciprocals is the reverse
RECURSIVE SurdCmp(_, _, _, _, _, _)
SurdCmp(N, a0, m, d, p, q) ==
  LET a  == (m + a0) \div d
      m1 == a * d - m
  IN  IF a # p \div q THEN (IF a < p \div q THEN -1 ELSE 1)
      ELSE IF p % q = 0 THEN 1
      ELSE -SurdCmp(N, a0, m1, (N - m1 * m1) \div d, q, p % q)

\* a < b for a, b > 0: a residue of a higher order is the smaller; in one
\* order, c <= c * sqrt(s) <= c * s decides where it can, and
\* sqrt(sa * sb) < (cb * sb) / ca where it cannot
PosLess(a, b) ==
  IF Ord(a) # Ord(b) THEN Ord(a) > Ord(b)
  ELSE IF Rad(a) = Rad(b) THEN FracLess(a[1], a[2], b[1], b[2])
  ELSE IF FracLess(a[1] * Rad(a), a[2], b[1], b[2]) THEN TRUE
  ELSE IF ~FracLess(a[1], a[2], b[1] * Rad(b), b[2]) THEN FALSE
  ELSE LET t == QMul(QMul(Coef(b), <<a[2], a[1]>>), R(Rad(b)))
       IN  SurdCmp(Rad(a) * Rad(b), Floor2(Rad(a) * Rad(b)), 0, 1, t[1], t[2]) < 0

RLess(a, b) ==
  IF Sgn(a[1]) # Sgn(b[1]) THEN Sgn(a[1]) < Sgn(b[1])
  ELSE IF a[1] = 0 THEN FALSE
  ELSE IF a[1] > 0 THEN PosLess(a, b)
  ELSE PosLess(RNeg(b), RNeg(a))

(***************************************************************************)
(* Angles as directions                                                    *)
(***************************************************************************)
\* the length of <<x, y>>, an integer for the constant angles of the table
Sqrt(x) == CHOOSE r \in 0..x : r * r = x

Hyp(a) == <<Sqrt(a[1] * a[1] + a[2] * a[2]), 1>>

\* the greatest m whose square divides h
RECURSIVE SquareIn(_, _)
SquareIn(h, m) == IF m * m > h THEN 1 ELSE Max(IF h % (m * m) = 0 THEN m ELSE 1, SquareIn(h, m + 1))

\* x * sqrt(a) / sqrt(h): with h = m^2 * t and g = gcd(a, t) it is
\* (x * g / (m * t)) * sqrt((a/g) * (t/g))
OverLength(x, a, h) ==
  The({ LET t == h \div (m * m)
            g == GCD(a, t)
        IN  Mk(Frac(x * g, m * t), 0, (a \div g) * (t \div g))
        : m \in {SquareIn(h, 1)} })

Dir(x, y) == LET g == GCD(Abs(x), Abs(y)) IN <<x \div g, y \div g>>

AngleNeg(a) == <<a[1], -a[2]>>

Zero == <<1, 0>>

HalfPi == <<0, 1>>

Pi == <<-1, 0>>

NegPi == <<-1, 0, -1>>

\* np.cos(pi/2) = 6.1e-17, the unit of the residues
CosHalfPi == <<1, 1, 1>>

\* the distance 2^-52 of neighbouring floats between 1 and 2, in units of
\* np.cos(pi/2) = pi/2 - np.pi/2: 3.62626359, to ten digits
UlpRatio == <<38025, 10486>>

\* np.cos of the float j places after pi/2: 6.1e-17 - j * 2^-52
CosNearHalfPi(j) == Mk(QAdd(R(1), QMul(R(-j), UlpRatio)), 1, 1)

\* np.sin(pi) = 1.2e-16
SinPi == <<2, 1, 1>>

\* sympy's cos and sin of a constant: exact
ExactCos(a) ==
  IF a[1] = 0 THEN R(0)
  ELSE IF a[2] = 0 THEN R(Sgn(a[1]))
  ELSE RDiv(R(a[1]), Hyp(a))

ExactSin(a) ==
  IF a[2] = 0 THEN R(0)
  ELSE IF a[1] = 0 THEN R(Sgn(a[2]))
  ELSE RDiv(R(a[2]), Hyp(a))

\* np.cos and np.sin of a float
Cos(a) ==
  IF a[1] = 0 THEN (IF Len(a) = 3 THEN CosNearHalfPi(a[3]) ELSE CosHalfPi)
  ELSE IF a[2] = 0 THEN R(Sgn(a[1]))
  ELSE IF Len(a) = 4
  THEN OverLength(a[1], a[3], a[1] * a[1] * a[3] + a[2] * a[2] * a[4])
  ELSE OverLength(a[1], 1, a[1] * a[1] + a[2] * a[2])

Sin(a) ==
  IF a[2] = 0
  THEN IF a[1] > 0 THEN R(0) ELSE IF Len(a) = 3 THEN RNeg(SinPi) ELSE SinPi
  ELSE IF a[1] = 0 THEN R(Sgn(a[2]))
  ELSE IF Len(a) = 4
  THEN OverLength(a[2], a[4], a[1] * a[1] * a[3] + a[2] * a[2] * a[4])
  ELSE OverLength(a[2], 1, a[1] * a[1] + a[2] * a[2])

\* np.arctan2(y, x) of an ordinary y and a residue x = r * e * |y| is
\* pi/2 - r * e, where np.pi/2 is pi/2 - e: the float nearest to it is
\* j = round((1 - r) / UlpRatio) places after np.pi/2
HalfWay(j) == QAdd(R(1), QMul(<<1 - 2 * j, 2>>, UlpRatio))

Round(r) ==
  LET t == QAdd(QMul(QAdd(R(1), <<-r[1], r[2]>>), <<UlpRatio[2], UlpRatio[1]>>), <<1, 2>>)
  IN  t[1] \div t[2]

\* 1 - (j + 1/2) * UlpRatio < r <= 1 - (j - 1/2) * UlpRatio, sought between
\* the places of the bounds |c| and |c| * s of |c| * sqrt(s)
PlacesAfter(r) ==
  IF Rad(r) = 1 THEN Round(r)
  ELSE CHOOSE j \in Round(<<Abs(r[1]) * Rad(r), r[2]>>)..Round(<<-Abs(r[1]) * Rad(r), r[2]>>) :
         RLess(HalfWay(j + 1), r) /\ ~RLess(HalfWay(j), r)

\* the direction (x0 * sqrt(sx), y0 * sqrt(sy)) in lowest terms
SurdDir(x0, sx, y0, sy) ==
  LET d  == Dir(x0, y0)
      g  == GCD(sx, sy)
      p  == GCD(Abs(d[1]), sy \div g)
      q  == GCD(Abs(d[2]), sx \div g)
      a  == ((sx \div g) * p) \div q
      b  == ((sy \div g) * q) \div p
  IN  IF a = 1 /\ b = 1 THEN <<d[1] \div p, d[2] \div q>>
      ELSE <<d[1] \div p, d[2] \div q, a, b>>

NearHalfPi(s, j) == IF j = 0 THEN <<0, s>> ELSE <<0, s, j>>

\* np.arctan2(y0, x0)
Atan2(y0, x0) ==
  The({ IF y[1] = 0
        THEN IF SignOf(x) > 0 THEN Zero ELSE IF y[2] > 0 THEN Pi ELSE NegPi
        ELSE IF x[1] = 0 THEN <<0, Sgn(y[1])>>
        ELSE IF Ord(y) = Ord(x)
        THEN LET g == GCD(y[2], x[2])
             IN  SurdDir(x[1] * (y[2] \div g), Rad(x), y[1] * (x[2] \div g), Rad(y))
        ELSE IF Ord(y) > Ord(x)
        THEN IF x[1] > 0 THEN Zero ELSE IF y[1] > 0 THEN Pi ELSE NegPi
        ELSE IF Ord(x) - Ord(y) = 1
        THEN NearHalfPi(Sgn(y[1]),
                        PlacesAfter(RDiv(Mk(Coef(x), 0, Rad(x)), Mk(Coef(RAbs(y)), 0, Rad(y)))))
        ELSE <<0, Sgn(y[1])>> : y \in {y0}, x \in {x0} })

(***************************************************************************)
(* Matrices                                                                *)
(***************************************************************************)
At(M, i, j) == M[i + 1][j + 1]

\* the tuple <<f[1], ..., f[m]>> of a function on 1..m, built element by
\* element (an array, as against a rule to compute one)
RECURSIVE TabFrom(_, _, _)
TabFrom(f, lo, hi) == IF lo > hi THEN <<>> ELSE <<f[lo]>> \o TabFrom(f, lo + 1, hi)

Tab(f) == TabFrom(f, 1, Cardinality(DOMAIN f))

\* acc = 0.0; for x in s: acc += x
RECURSIVE SumFrom(_, _, _)
SumFrom(acc, s, i) ==
  IF i > Len(s) THEN acc ELSE The({SumFrom(a, s, i + 1) : a \in {RAdd(acc, s[i])}})

RSum(s0) == The({SumFrom(R(0), s, 1) : s \in {s0}})

\* numpy a.dot(b) / sympy a * b
Dot(A0, B0) ==
  The({ Tab([i \in 1..Len(A) |->
               Tab([j \in 1..Len(B[1]) |->
                      RSum(Tab([m \in 1..Len(B) |-> RMul(A[i][m], B[m][j])]))])])
        : A \in {A0}, B \in {B0} })

Eye(m) == Tab([i \in 1..m |-> Tab([j \in 1..m |-> IF i = j THEN R(1) ELSE R(0)])])

\* np.cross(u, v) of 3-vectors
Cross(u, v) ==
  << RSub(RMul(u[2], v[3]), RMul(u[3], v[2])),
     RSub(RMul(u[3], v[1]), RMul(u[1], v[3])),
     RSub(RMul(u[1], v[2]), RMul(u[2], v[1])) >>

\* M[:3, j]
Col3(M, j) == <<At(M, 0, j), At(M, 1, j), At(M, 2, j)>>

\* M[:3, :3]
Rot(M) == Tab([i \in 1..3 |-> Tab([j \in 1..3 |-> M[i][j]])])

Transpose(M) == Tab([i \in 1..Len(M[1]) |-> Tab([j \in 1..Len(M) |-> M[j][i]])])

Det3(M) ==
  RAdd(RSub(RMul(M[1][1], RSub(RMul(M[2][2], M[3][3]), RMul(M[2][3], M[3][2]))),
            RMul(M[1][2], RSub(RMul(M[2][1], M[3][3]), RMul(M[2][3], M[3][1])))),
       RMul(M[1][3], RSub(RMul(M[2][1], M[3][2]), RMul(M[2][2], M[3][1]))))

(***************************************************************************)
(* Program constants                                                       *)
(***************************************************************************)
dim_h == 4

n == 6

link_lengths == <<1, 1, 1, 1, 1, 1>>

input_initial == <<Zero, Zero, Zero, Zero, Zero, Zero>>

EpsInv == 1000000000

eps == <<1, EpsInv>>

eq(a, b) == RLess(RAbs(RSub(a, b)), eps)

(***************************************************************************)
(* The DH table                                                            *)
(***************************************************************************)
\* An angle of the table: the constant off (q = 0), or the joint symbol plus
\* off (q = 1), off a multiple of a quarter turn.
Sym(q, off) == [q |-> q, off |-> off]

\* An entry of a symbolic matrix is a + b * cos(q) + d * sin(q), held as
\* <<a, b, d>> with exact rationals a, b, d (sympy's 0 has no sign).
SConst(x) == <<x, R(0), R(0)>>

IsConst(e) == e[2][1] = 0 /\ e[3][1] = 0

QNeg(x) == <<-x[1], x[2]>>

SNeg(e) == <<QNeg(e[1]), QNeg(e[2]), QNeg(e[3])>>

SAdd(e, f) == <<QAdd(e[1], f[1]), QAdd(e[2], f[2]), QAdd(e[3], f[3])>>

SScale(e, x) == <<QMul(e[1], x), QMul(e[2], x), QMul(e[3], x)>>

\* the product of two entries.  A list of transformations holds the joint
\* symbol in one rotation, so one factor of every product is a constant.
SMul(e, f) ==
  CASE IsConst(f) -> SScale(e, f[1])
    [] IsConst(e) -> SScale(f, e[1])

RECURSIVE SSumFrom(_, _, _)
SSumFrom(acc, s, i) ==
  IF i > Len(s) THEN acc ELSE The({SSumFrom(a, s, i + 1) : a \in {SAdd(acc, s[i])}})

\* sympy a * b
SDot(A0, B0) ==
  The({ Tab([i \in 1..Len(A) |->
               Tab([j \in 1..Len(B[1]) |->
                      SSumFrom(SConst(R(0)),
                               Tab([m \in 1..Len(B) |-> SMul(A[i][m], B[m][j])]), 1)])])
        : A \in {A0}, B \in {B0} })

\* sp.cos and sp.sin of an angle of the table.  sympy evaluates the cosine
\* and sine of a constant exactly and rewrites cos(q - pi/2) as sin(q) and
\* sin(q - pi/2) as -cos(q).
SymCos(angle) ==
  IF angle.q = 0 THEN SConst(ExactCos(angle.off))
  ELSE <<R(0), ExactCos(angle.off), QNeg(ExactSin(angle.off))>>

SymSin(angle) ==
  IF angle.q = 0 THEN SConst(ExactSin(angle.off))
  ELSE <<R(0), ExactSin(angle.off), ExactCos(angle.off)>>

\* rot_symb with the sign of the sine lost in the rotation about x
rot_symb_sign_lost(axis, angle) ==
  LET o == SConst(R(0))
      l == SConst(R(1))
  IN  The({ CASE axis = "z" -> << <<c, SNeg(s), o, o>>,
                                  <<s, c, o, o>>,
                                  <<o, o, l, o>>,
                                  <<o, o, o, l>> >>
              [] axis = "y" -> << <<c, o, s, o>>,
                                  <<o, l, o, o>>,
                                  <<SNeg(s), o, c, o>>,
                                  <<o, o, o, l>> >>
              [] axis = "x" -> << <<l, o, o, o>>,
                                  <<o, c, s, o>>,
                                  <<o, s, c, o>>,
                                  <<o, o, o, l>> >>
            : c \in {SymCos(angle)}, s \in {SymSin(angle)} })

\* rot_symb[axis].subs(q, angle)
rot_symb(axis, angle) ==
  LET o == SConst(R(0))
      l == SConst(R(1))
  IN  The({ CASE axis = "z" -> << <<c, SNeg(s), o, o>>,
                                  <<s, c, o, o>>,
                                  <<o, o, l, o>>,
                                  <<o, o, o, l>> >>
              [] axis = "y" -> << <<c, o, s, o>>,
                                  <<o, l, o, o>>,
                                  <<SNeg(s), o, c, o>>,
                                  <<o, o, o, l>> >>
              [] axis = "x" -> << <<l, o, o, o>>,
                                  <<o, c, SNeg(s), o>>,
                                  <<o, s, c, o>>,
                                  <<o, o, o, l>> >>
            : c \in {SymCos(angle)}, s \in {SymSin(angle)} })

\* trans_symb[axis].subs(d, distance)
trans_symb(axis, distance) ==
  LET o == SConst(R(0))
      l == SConst(R(1))
      d == SConst(R(distance))
  IN  CASE axis = "z" -> << <<l, o, o, o>>, <<o, l, o, o>>, <<o, o, l, d>>, <<o, o, o, l>> >>
        [] axis = "y" -> << <<l, o, o, o>>, <<o, l, o, d>>, <<o, o, l, o>>, <<o, o, o, l>> >>
        [] axis = "x" -> << <<l, o, o, d>>, <<o, l, o, o>>, <<o, o, l, o>>, <<o, o, o, l>> >>

get_T(args) ==
  IF args.T = "R" THEN rot_symb(args.axis, args.angle)
  ELSE trans_symb(args.axis, args.distance)

\* for i in range(1, len(t)): t[i] = t[i-1] * t[i]
RECURSIVE ComposeFrom(_, _, _)
ComposeFrom(acc, ts, i) ==
  IF i > Len(ts) THEN acc ELSE ComposeFrom(SDot(acc, ts[i]), ts, i + 1)

\* sp.simplify leaves the entries of the product, each a multiple of 1,
\* cos(q) or sin(q), as they are
compose_T_symb(args) ==
  The({ ComposeFrom(ts[1], ts, 2)
        : ts \in {Tab([i \in 1..Len(args) |-> get_T(args[i])])} })

RotArg(axis, angle) == [T |-> "R", axis |-> axis, angle |-> angle]

TransArg(axis, distance) == [T |-> "T", axis |-> axis, distance |-> distance]

\* the DH row: rotate about z, shift along z, shift along x, rotate about x
DHRow(theta, dz, dx, alpha) ==
  compose_T_symb(<<RotArg("z", theta), TransArg("z", dz),
                   TransArg("x", dx), RotArg("x", alpha)>>)

\* T_i with the z-offset of row 4 entered as its x-length
T_i_offset_as_length(i) ==
  LET l == link_lengths
      q == Sym(1, Zero)
  IN  CASE i = 1 -> DHRow(q, l[1], 0, Sym(0, HalfPi))
        [] i = 2 -> DHRow(q, 0, l[2], Sym(0, Zero))
        [] i = 3 -> DHRow(q, 0, l[3], Sym(0, AngleNeg(HalfPi)))
        [] i = 4 -> DHRow(q, 0, l[4], Sym(0, AngleNeg(HalfPi)))
        [] i = 5 -> DHRow(Sym(1, AngleNeg(HalfPi)), 0, 0, Sym(0, AngleNeg(HalfPi)))
        [] i = 6 -> DHRow(q, l[5] + l[6], 0, Sym(0, Zero))

\* T12 .. T6e of get_dh, i 1-based, in the symbol q
T_i(i) ==
  LET l == link_lengths
      q == Sym(1, Zero)
  IN  CASE i = 1 -> DHRow(q, l[1], 0, Sym(0, HalfPi))
        [] i = 2 -> DHRow(q, 0, l[2], Sym(0, Zero))
        [] i = 3 -> DHRow(q, 0, l[3], Sym(0, AngleNeg(HalfPi)))
        [] i = 4 -> DHRow(q, l[4], 0, Sym(0, AngleNeg(HalfPi)))
        [] i = 5 -> DHRow(Sym(1, AngleNeg(HalfPi)), 0, 0, Sym(0, AngleNeg(HalfPi)))
        [] i = 6 -> DHRow(q, l[5] + l[6], 0, Sym(0, Zero))

\* get_dh(use_different_qs=False): the six rows in the one symbol q
get_dh == Tab([i \in 1..n |-> T_i(i)])

\* the function lambdify(q, e, 'numpy') at qv: the terms of e with np.cos(qv)
\* and np.sin(qv) in float64; an entry 0 is 0.0, and -sin(q) at 0.0 is -0.0
Lambdify(e, qv) ==
  LET terms == (IF e[1][1] # 0 THEN <<e[1]>> ELSE <<>>)
               \o (IF e[2][1] # 0 THEN <<RMul(e[2], Cos(qv))>> ELSE <<>>)
               \o (IF e[3][1] # 0 THEN <<RMul(e[3], Sin(qv))>> ELSE <<>>)
  IN  IF terms = <<>> THEN R(0) ELSE SumFrom(terms[1], terms, 2)

LambdifyM(M, qv) ==
  Tab([i \in 1..Len(M) |-> Tab([j \in 1..Len(M[i]) |-> Lambdify(M[i][j], qv)])])

\* ts_num[i](q), i 0-based
ts_num(i, qv) == LambdifyM(get_dh[i + 1], qv)

(***************************************************************************)
(* Forward kinematics                                                      *)
(***************************************************************************)
\* for i in range(from, n-1): ts[i+1] = ts[i].dot(ts[i+1])   (i 0-based)
RECURSIVE Accumulate(_, _)
Accumulate(ts0, i) ==
  The({ IF i >= n - 1 THEN ts
        ELSE Accumulate([ts EXCEPT ![i + 2] = Dot(ts[i + 1], ts[i + 2])], i + 1)
        : ts \in {ts0} })

None == [none |-> TRUE]

\* get_fk_solution(qs, flag).  zip stops at the shorter of ts_num and qs; the
\* loop then indexes ts[0..n-1] whatever the length of ts.
\*   raised    "none" or the exception that ends the call
\*   value     what the call returns
\*   evaluated how many per-joint transforms t(q) were evaluated
get_fk_solution(qs, flag) ==
  LET m  == Min(n, Len(qs))
      ts == Tab([i \in 1..m |-> ts_num(i - 1, qs[i])])
  IN  IF m < n
      THEN [raised |-> "IndexError", value |-> None, evaluated |-> m]
      ELSE The({ [raised |-> "none",
                  value |-> IF flag = "ee" THEN fk[Len(fk)]
                            ELSE IF flag = "full" THEN fk
                            ELSE None,
                  evaluated |-> m] : fk \in {Accumulate(ts, 0)} })

(***************************************************************************)
(* Jacobian                                                                *)
(***************************************************************************)
base_default_value == Eye(dim_h)

fk_full_default_value == get_fk_solution(input_initial, "full").value

VSub(u, v) == Tab([i \in 1..Len(u) |-> RSub(u[i], v[i])])

\* jacobian without the base frame in front of the link frames
jacobian_no_base(frames, base) ==
  LET fks == frames
      ee  == fks[Len(fks)]
      col(i) == LET z      == Col3(fks[i + 1], 2)
                    o_diff == VSub(Col3(ee, 3), Col3(fks[i + 1], 3))
                IN  Cross(z, o_diff) \o z
      cols == Tab([i \in 1..n |-> col(i - 1)])
  IN  Tab([r \in 1..n |-> Tab([c \in 1..n |-> cols[c][r]])])

\* jacobian(frames), with the module's base frame passed in
jacobian(frames, base) ==
  LET fks == <<base>> \o frames
      ee  == fks[Len(fks)]
      col(i) == LET z      == Col3(fks[i + 1], 2)
                    o_diff == VSub(Col3(ee, 3), Col3(fks[i + 1], 3))
                IN  Cross(z, o_diff) \o z
      cols == Tab([i \in 1..n |-> col(i - 1)])
  IN  Tab([r \in 1..n |-> Tab([c \in 1..n |-> cols[c][r]])])

(***************************************************************************)
(* Pose decomposition                                                      *)
(***************************************************************************)
\* go(m2) of decompose_transformation(W)
go(W, m2) ==
  IF eq(RAbs(At(W, 0, 2)), R(0)) THEN << <<>> >>
  ELSE
    The({ The({
      IF ~eq(c3, R(0))
      THEN The({ The({ << <<Atan2(RDiv(RNeg(At(W, 1, 2)), c2), RDiv(At(W, 2, 2), c2)),
                            q2, q3>> >>
                       : c2 \in {Cos(q2)} })
                 : q2 \in {Atan2(At(W, 0, 2), RDiv(At(W, 0, 0), c3))} })
      ELSE The({ The({ << <<Atan2(RDiv(RNeg(At(W, 1, 2)), c2), RDiv(At(W, 2, 2), c2)),
                            q2, q3>> >>
                       : c2 \in {Cos(q2)} })
                 : q2 \in {Atan2(At(W, 0, 2), RDiv(At(W, 0, 1), RNeg(Sin(q3))))} })
      : c3 \in {Cos(q3)} })
      : q3 \in {Atan2(RMul(RNeg(At(W, 0, 1)), R(m2)), RMul(At(W, 0, 0), R(m2)))} })

\* q123 with the two branches in the other order
q123_swapped(W) == go(W, 1) \o go(W, -1)

\* the order in which go is called: q123 = go(-1) + go(1)
q123(W) == go(W, -1) \o go(W, 1)

decompose_transformation(W) ==
  LET qq == q123(W)
  IN  Tab([i \in 1..Len(qq) |-> <<At(W, 0, 3), At(W, 1, 3), At(W, 2, 3)>> \o qq[i]])

(***************************************************************************)
(* The vector field of solve_motion                                        *)
(***************************************************************************)
t0 == 0

tf == 10

n_steps == 10000

\* k = (tf-t0)/n_steps, evaluated once when the module is loaded
k_value == RDiv(R(tf - t0), R(n_steps))

\* numpy broadcasting of two 1-d arrays
Broadcasts(u, v) == Len(u) = Len(v) \/ Len(u) = 1 \/ Len(v) = 1

Bc(u, i) == IF Len(u) = 1 THEN u[1] ELSE u[i]

\* J.dot((x1 - xi) * kk) for 6-component poses.  The first three components
\* of a pose are lengths, the last three are angles, whose values in radians
\* are not rational: row r of the product is
\*   lin[r] + coef[r][1] * d1 + coef[r][2] * d2 + coef[r][3] * d3
\* with d_j = radians(diff[j][1]) - radians(diff[j][2]).
Velocity(J, x1, xi, kk) ==
  [ lin  |-> Tab([r \in 1..Len(J) |->
                    RSum(Tab([c \in 1..3 |->
                      RMul(J[r][c], RMul(RSub(Bc(x1, c), Bc(xi, c)), kk))]))]),
    coef |-> Tab([r \in 1..Len(J) |-> Tab([c \in 1..3 |-> RMul(J[r][c + 3], kk)])]),
    diff |-> Tab([c \in 1..3 |-> <<Bc(x1, c + 3), Bc(xi, c + 3)>>]) ]

(***************************************************************************)
(* The objects of a solve                                                  *)
(***************************************************************************)
\* numpy arrays and Python lists are objects.  The heap is the sequence of
\* the objects allocated so far, and a name is bound to an address, an index
\* into the heap: what is written through one name is read through every
\* name bound to the same address.  An array object is its value, a list
\* object holds the addresses of its items, and the module object holds what
\* the module's global names are bound to: the float k, and the addresses of
\* base_default and fk_full_default.
List(items) == [items |-> items]

\* the module object, whose names state_space and jacobian look up when they
\* run
A_module == 1

\* x1 of solve_motion, which state_space closes over
A_x1 == 2

\* the array odeint passes to state_space as y
A_y == 3

A_base_default == 4

\* the list fk_full_default; its frames follow it
A_fk_full_default == 5

\* the heap when odeint calls state_space(y, t)
Heap(kk, base, frames, x, y) ==
  << [k |-> kk, base_default |-> A_base_default, fk_full_default |-> A_fk_full_default],
     x, y, base,
     List(Tab([i \in 1..Len(frames) |-> A_fk_full_default + i])) >> \o frames

\* the arrays a list holds
Items(h, a) == Tab([i \in 1..Len(h[a].items) |-> h[h[a].items[i]]])

\* how a call ends: the heap it leaves, the exception it raised or "none",
\* and the address of what it returned
Raise(h, e) == [heap |-> h, raised |-> e, ret |-> None]

Returns(h, a) == [heap |-> h, raised |-> "none", ret |-> a]

\* a new object: the heap grows by it
New(h, obj) == Returns(Append(h, obj), Len(h) + 1)

\* for i in range(n-1): ts[i+1] = ts[i].dot(ts[i+1])   (i 0-based)
\* dot makes a new array, which replaces item i+1 of the list ts
RECURSIVE AccumulateOn(_, _, _)
AccumulateOn(h0, ts, i) ==
  The({ IF i >= n - 1 THEN Returns(h, ts)
        ELSE IF i + 2 > Len(h[ts].items) THEN Raise(h, "IndexError")
        ELSE AccumulateOn(
               [Append(h, Dot(h[h[ts].items[i + 1]], h[h[ts].items[i + 2]]))
                  EXCEPT ![ts].items[i + 2] = Len(h) + 1],
               ts, i + 1)
        : h \in {h0} })

\* get_fk_solution(qs, flag) on the heap: ts is a new list of new arrays t(q)
call_get_fk_solution(h, qs, flag) ==
  LET m == Min(n, Len(h[qs]))
  IN  The({ IF r.raised # "none" THEN r
            ELSE IF flag = "ee"
            THEN Returns(r.heap, r.heap[r.ret].items[Len(r.heap[r.ret].items)])
            ELSE IF flag = "full" THEN r
            ELSE Returns(r.heap, None)
            : r \in {AccumulateOn(
                       Append(h \o Tab([i \in 1..m |-> ts_num(i - 1, h[qs][i])]),
                              List(Tab([i \in 1..m |-> Len(h) + i]))),
                       Len(h) + m + 1, 0)} })

\* the columns of J with the difference of the origins made in place, in the
\* view of fks[i]: o = fks[i][:3,3]; o -= ee[:3,3]; J[:3,i] = np.cross(o, z)
RECURSIVE ColumnsOn_in_place(_, _, _, _, _)
ColumnsOn_in_place(h0, fks, ee, J, i) ==
  The({ IF i >= n THEN h
        ELSE The({ ColumnsOn_in_place(
                     [h EXCEPT ![J] = Tab([r \in 1..n |->
                                             [@[r] EXCEPT ![i + 1] = (Cross(o, z) \o z)[r]]]),
                               ![h[fks].items[i + 1]] =
                                  Tab([r \in 1..Len(@) |->
                                         IF r <= 3 THEN [@[r] EXCEPT ![4] = o[r]] ELSE @[r]])],
                     fks, ee, J, i + 1)
                   : o \in {VSub(Col3(h[h[fks].items[i + 1]], 3), Col3(h[ee], 3))},
                     z \in {Col3(h[h[fks].items[i + 1]], 2)} })
        : h \in {h0} })

\* for i in range(6): z = fks[i][:3,2]; o_diff = ee[:3,3] - fks[i][:3,3];
\*                    J[:3,i] = np.cross(z, o_diff); J[3:,i] = z
\* z is a view of fks[i], and is read only; the items are written into J
RECURSIVE ColumnsOn(_, _, _, _, _)
ColumnsOn(h0, fks, ee, J, i) ==
  The({ IF i >= n THEN h
        ELSE The({ ColumnsOn(
                     [h EXCEPT ![J] = Tab([r \in 1..n |-> [@[r] EXCEPT ![i + 1] = col[r]]])],
                     fks, ee, J, i + 1)
                   : col \in {Cross(Col3(h[h[fks].items[i + 1]], 2),
                                    VSub(Col3(h[ee], 3), Col3(h[h[fks].items[i + 1]], 3)))
                              \o Col3(h[h[fks].items[i + 1]], 2)} })
        : h \in {h0} })

\* jacobian(frames) on the heap: fks = [base_default] + frames is a new list
\* that holds the base frame and the frames themselves, ee is its last item,
\* and J = np.zeros((n,n)) a new array
call_jacobian(h, frames) ==
  LET fks == Len(h) + 1
      J   == Len(h) + 2
      h2  == h \o << List(<<h[A_module].base_default>> \o h[frames].items),
                     Tab([r \in 1..n |-> Tab([c \in 1..n |-> R(0)])]) >>
  IN  Returns(ColumnsOn(h2, fks, h2[fks].items[Len(h2[fks].items)], J, 0), J)

\* decompose_transformation(W) on the heap: a new list of new arrays, from
\* the entries of W
call_decompose_transformation(h, W) ==
  The({ New(h \o poses, List(Tab([i \in 1..Len(poses) |-> Len(h) + i])))
        : poses \in {decompose_transformation(h[W])} })

\* (x1 - xi) * k: two new arrays, of which the product stays.  The first three
\* components of a pose are lengths, the last three are angles, whose values
\* in radians are not rational: the array is kept as what it was made from
Difference(h, x, xi, kk) ==
  IF ~Broadcasts(h[x], h[xi]) THEN Raise(h, "ValueError")
  ELSE New(h, [x1 |-> h[x], xi |-> h[xi], k |-> kk])

\* J.dot(dx): a new array
call_dot(h, J, dx) ==
  IF Max(Len(h[dx].x1), Len(h[dx].xi)) # Len(h[J][1]) THEN Raise(h, "ValueError")
  ELSE New(h, Velocity(h[J], h[dx].x1, h[dx].xi, h[dx].k))

\* state_space(y, t) inside solve_motion, on the heap:
\*   fk = get_fk_solution(y, flag="full")
\*   J = jacobian(frames=fk)
\*   xi = decompose_transformation(fk[-1])[0]
\*   dx = (x1-xi)*k
\*   return J.dot(dx)
\* t is not read
state_space(h, y, t) ==
  The({ IF fk.raised # "none" THEN fk
        ELSE The({ The({ The({ IF dx.raised # "none" THEN dx
                               ELSE call_dot(dx.heap, J.ret, dx.ret)
                               : dx \in {Difference(xi.heap, A_x1,
                                                    xi.heap[xi.ret].items[1],
                                                    xi.heap[A_module].k)} })
                         : xi \in {call_decompose_transformation(
                                     J.heap,
                                     J.heap[fk.ret].items[Len(J.heap[fk.ret].items)])} })
                   : J \in {call_jacobian(fk.heap, fk.ret)} })
        : fk \in {call_get_fk_solution(h, y, "full")} })

\* what an evaluation hands back to odeint
Outcome(r) ==
  [raised |-> r.raised, value |-> IF r.raised = "none" THEN r.heap[r.ret] ELSE None]

(***************************************************************************)
(* Inputs                                                                  *)
(***************************************************************************)
\* joint angles: quarter turns, and two angles with rational cosine and sine
\* (3/5, 4/5 and 5/13, 12/13)
Theta == <<3, 4>>

AxisAngles == {Zero, HalfPi}

ObliqueAngles == {Theta, <<5, 12>>}

\* joint vectors with at most one joint off the quarter turns: every frame
\* then has the sines and cosines of one angle as its entries
AxisVectors == [1..n -> AxisAngles]

JointVectors ==
  AxisVectors \cup
  {[v EXCEPT ![j] = a] : v \in AxisVectors, j \in 1..n, a \in ObliqueAngles}

\* joint vectors of the wrong length: one component short, one too many
ShortVectors == {SubSeq(v, 1, n - 1) : v \in AxisVectors}

LongVectors == {Append(v, Zero) : v \in AxisVectors}

QDegenerate == <<Zero, Zero, Zero, Zero, HalfPi, Zero>>

QGeneric == <<Theta, Zero, Zero, Zero, Zero, Zero>>

QGeneric5 == <<Zero, Zero, Zero, Zero, Theta, Zero>>

\* configurations of a solve: a gimbal lock (the module's input_initial), a
\* rotation with W[0,2] = 0, and a generic one
SolveVectors == {input_initial, QDegenerate, QGeneric}

MaxSamples == 3

MaxEvals == 3

\* how far after a grid sample the integrator may evaluate the field
OffGrid == 2

\* the states the integrator may evaluate the field at
FieldStates == SolveVectors \cup {QGeneric5}

\* the times it may evaluate the field at: the grid samples and the times
\* OffGrid after one, between two samples or beyond the last
EvalTimes(g) == {g[i] : i \in 1..Len(g)} \cup {g[1] + OffGrid}

\* time grids: the two end points and up to MaxSamples samples in all, from
\* t0 in steps of 1 or 5
Grids == {Tab([i \in 1..num |-> t0 + (i - 1) * step]) :
            num \in 2..MaxSamples, step \in {1, 5}}

(***************************************************************************)
(* State                                                                   *)
(***************************************************************************)
VARIABLES
  k,                \* the module global k
  fk_full_default,  \* the module global fk_full_default
  base_default,     \* the module global base_default
  pc,               \* solve_motion: "ready", "integrating", "returned", "raised"
  y0, tgrid, x1,    \* the arguments of solve_motion
  nevals,           \* evaluations of the vector field in this solve
  yarg,             \* the array last passed to state_space, after the call
  last,             \* the last evaluation: [y, t, out]
  hist,             \* the evaluations of this solve, in their order
  traj,             \* what solve_motion returned
  kpc,              \* kinematics chain: "off", "start", "fk", "jac", "dec", "raised"
  kq,               \* its joint vector
  kflag,            \* the flag get_fk_solution was called with
  kfk,              \* the result of get_fk_solution
  kJ,               \* the result of jacobian
  kposes            \* the result of decompose_transformation

globals == <<k, fk_full_default, base_default>>

solver == <<pc, y0, tgrid, x1, nevals, yarg, last, hist, traj>>

kin == <<kpc, kq, kflag, kfk, kJ, kposes>>

vars == <<globals, solver, kin>>

\* the module's globals once it is loaded
Loaded ==
  /\ k = k_value
  /\ fk_full_default = fk_full_default_value
  /\ base_default = base_default_value

SolverReady ==
  /\ pc = "ready"
  /\ y0 = None /\ tgrid = None /\ x1 = None
  /\ nevals = 0
  /\ yarg = None /\ last = None
  /\ hist = <<>>
  /\ traj = None

KinOff ==
  /\ kpc = "off"
  /\ kq = None /\ kflag = None /\ kfk = None /\ kJ = None /\ kposes = None

(***************************************************************************)
(* solve_motion and the integrator                                         *)
(***************************************************************************)
\* target poses: the first candidate of the decomposition of a configuration,
\* as x_target_default is made
Targets ==
  {decompose_transformation(W)[1] :
     W \in {get_fk_solution(v, "ee").value : v \in {QGeneric, QGeneric5, QDegenerate}}}

\* solve_motion(y0, t, x1): the call enters odeint
Call ==
  /\ pc = "ready"
  /\ \E v \in SolveVectors, g \in Grids, x \in Targets :
       /\ y0' = v
       /\ tgrid' = g
       /\ x1' = x
  /\ pc' = "integrating"
  /\ UNCHANGED <<nevals, yarg, last, hist, traj, globals, kin>>

\* odeint evaluates func(y, t): first at (y0, t[0]), then at the states and
\* times its stepping takes it to, in any order of t.  The globals, x1 and
\* the argument are afterwards what the call left on the heap.  An exception
\* raised by func ends the solve.
Evaluate ==
  /\ pc = "integrating"
  /\ nevals < MaxEvals
  /\ \E v \in FieldStates, tt \in EvalTimes(tgrid) :
       /\ nevals = 0 => (v = y0 /\ tt = tgrid[1])
       /\ \E r \in {state_space(Heap(k, base_default, fk_full_default, x1, v), A_y, tt)} :
            /\ k' = r.heap[A_module].k
            /\ base_default' = r.heap[r.heap[A_module].base_default]
            /\ fk_full_default' = Items(r.heap, r.heap[A_module].fk_full_default)
            /\ x1' = r.heap[A_x1]
            /\ yarg' = r.heap[A_y]
            /\ last' = [y |-> v, t |-> tt, out |-> Outcome(r)]
            /\ hist' = Append(hist, [y |-> v, t |-> tt, out |-> Outcome(r)])
            /\ pc' = IF r.raised = "none" THEN "integrating" ELSE "raised"
  /\ nevals' = nevals + 1
  /\ UNCHANGED <<y0, tgrid, traj, kin>>

\* odeint returns one row per grid sample, the first being y0
Return ==
  /\ pc = "integrating"
  /\ nevals >= 1
  /\ \E rows \in [1..Len(tgrid) -> SolveVectors] :
       /\ rows[1] = y0
       /\ traj' = rows
  /\ pc' = "returned"
  /\ UNCHANGED <<y0, tgrid, x1, nevals, yarg, last, hist, globals, kin>>

Init == Loaded /\ SolverReady /\ KinOff

Next == Call \/ Evaluate \/ Return

Spec == Init /\ [][Next]_vars

(***************************************************************************)
(* The kinematics chain on one joint vector                                *)
(***************************************************************************)
InitKin ==
  /\ Loaded /\ SolverReady
  /\ kpc = "start"
  /\ kq \in JointVectors \cup ShortVectors \cup LongVectors
  /\ kflag = None /\ kfk = None /\ kJ = None /\ kposes = None

ForwardKinematics ==
  /\ kpc = "start"
  /\ \E flag \in {"ee", "full"} :
       /\ kflag' = flag
       /\ kfk' = get_fk_solution(kq, flag)
  /\ kpc' = IF kfk'.raised = "none" THEN "fk" ELSE "raised"
  /\ UNCHANGED <<kq, kJ, kposes, globals, solver>>

\* the end-effector frame of the call
EndEffector == IF kflag = "ee" THEN kfk.value ELSE kfk.value[Len(kfk.value)]

Jacobian ==
  /\ kpc = "fk"
  /\ kflag = "full"
  /\ kJ' = jacobian(kfk.value, base_default)
  /\ kpc' = "jac"
  /\ UNCHANGED <<kq, kflag, kfk, kposes, globals, solver>>

Decompose ==
  /\ \/ kpc = "jac"
     \/ kpc = "fk" /\ kflag = "ee"
  /\ kposes' = decompose_transformation(EndEffector)
  /\ kpc' = "dec"
  /\ UNCHANGED <<kq, kflag, kfk, kJ, globals, solver>>

NextKin == ForwardKinematics \/ Jacobian \/ Decompose

SpecKin == InitKin /\ [][NextKin]_vars

(***************************************************************************)
(* Properties of the kinematics chain (SpecKin)                            *)
(***************************************************************************)
FkDone == kpc \in {"fk", "jac", "dec"}

\* C1, as stated: at the identity configuration the z-component of the
\* end-effector translation is l1 + l4 + l5 + l6
C1_IdentityHeight_AsStated ==
  (FkDone /\ kflag = "ee" /\ kq = input_initial) =>
     At(kfk.value, 2, 3) =
       R(link_lengths[1] + link_lengths[4] + link_lengths[5] + link_lengths[6])

\* C1, amended: at the identity configuration the z-component of the
\* end-effector translation is l1 + l4; the offset l5 + l6 of the last row
\* lies along the base frame's x-axis there
C1_IdentityHeight ==
  (FkDone /\ kflag = "ee" /\ kq = input_initial) =>
     At(kfk.value, 2, 3) = R(link_lengths[1] + link_lengths[4])

C1_Witness == kpc = "fk" /\ kflag = "ee" /\ kq = input_initial

\* a number without what rounding leaves of it: a residue is 0
Std(a) == IF a[1] = 0 \/ Ord(a) > 0 THEN R(0) ELSE a

StdM(M) == Tab([i \in 1..Len(M) |-> Tab([j \in 1..Len(M[i]) |-> Std(M[i][j])])])

\* R * R^T = I and det R = 1 to rounding, bottom row [0, 0, 0, 1]
ValidTransform(M) ==
  /\ Len(M) = dim_h
  /\ \A i \in 1..dim_h : Len(M[i]) = dim_h
  /\ StdM(Dot(Rot(M), Transpose(Rot(M)))) = Eye(3)
  /\ Std(Det3(Rot(M))) = R(1)
  /\ M[dim_h] = <<R(0), R(0), R(0), R(1)>>

\* C7: every per-joint transform of the table and every accumulated link
\* frame get_fk_solution produces is a valid homogeneous transform
C7_ValidFrames ==
  (FkDone /\ Len(kq) = n) =>
     /\ \A i \in 1..n : ValidTransform(ts_num(i - 1, kq[i]))
     /\ kflag = "full" => \A i \in 1..n : ValidTransform(kfk.value[i])
     /\ kflag = "ee" => ValidTransform(kfk.value)

C7_Witness ==
  /\ kpc = "fk" /\ kflag = "full"
  /\ \E j \in 1..n : kq[j] = Theta
  /\ Len(kfk.value) = n

\* the product of the first i per-joint transforms
RECURSIVE FrameOf(_, _)
FrameOf(qs, i) ==
  IF i = 0 THEN Eye(dim_h) ELSE Dot(FrameOf(qs, i - 1), ts_num(i - 1, qs[i]))

\* [z_i x (o_ee - o_i) ; z_i]
JacobianColumn(qs, i) ==
  LET z    == Col3(FrameOf(qs, i), 2)
      o    == Col3(FrameOf(qs, i), 3)
      o_ee == Col3(FrameOf(qs, n), 3)
  IN  Cross(z, VSub(o_ee, o)) \o z

\* C5: column i of jacobian(get_fk_solution(q, "full")) is
\* [z_i x (o_ee - o_i) ; z_i] for the frames 0 (base) .. 5, with o_ee taken
\* from frame 6; the angular part of column 0 is (0, 0, 1)
C5_JacobianColumns ==
  (kpc \in {"jac", "dec"} /\ kflag = "full" /\ Len(kq) = n) =>
     /\ Len(kJ) = n
     /\ \A i \in 0..(n - 1) :
          Tab([r \in 1..n |-> At(kJ, r - 1, i)]) = JacobianColumn(kq, i)
     /\ <<At(kJ, 3, 0), At(kJ, 4, 0), At(kJ, 5, 0)>> = <<R(0), R(0), R(1)>>

C5_Witness ==
  /\ kpc = "jac" /\ Len(kq) = n
  /\ \E j \in 1..n : kq[j] = Theta
  /\ Len(kJ) = n

Degenerate(W) == eq(RAbs(At(W, 0, 2)), R(0))

Translation(W) == <<At(W, 0, 3), At(W, 1, 3), At(W, 2, 3)>>

\* C8: the candidates are those of m2 = -1 then m2 = +1; off the degenerate
\* case there are exactly two, each (T[0,3], T[1,3], T[2,3], a1, a2, a3); in
\* the degenerate case both branches are empty and no element has angles
C8_Candidates ==
  kpc = "dec" =>
    LET W     == EndEffector
        minus == go(W, -1)
        plus  == go(W, 1)
    IN  /\ kposes = <<Translation(W) \o minus[1], Translation(W) \o plus[1]>>
        /\ ~Degenerate(W) =>
             /\ Len(kposes) = 2
             /\ \A i \in 1..2 : /\ Len(kposes[i]) = 6
                                /\ SubSeq(kposes[i], 1, 3) = Translation(W)
        /\ Degenerate(W) =>
             /\ minus = << <<>> >> /\ plus = << <<>> >>
             /\ \A i \in 1..Len(kposes) : Len(kposes[i]) = 3

C8_Witness ==
  /\ kpc = "dec"
  /\ ~Degenerate(EndEffector)
  /\ Len(kposes) = 2
  /\ kposes[1] # kposes[2]

\* Rx(a1).dot(Ry(a2)).dot(Rz(a3)) in float64
Reconstruct(a1, a2, a3) ==
  Rot(Dot(Dot(LambdifyM(rot_symb("x", Sym(1, Zero)), a1),
              LambdifyM(rot_symb("y", Sym(1, Zero)), a2)),
          LambdifyM(rot_symb("z", Sym(1, Zero)), a3)))

\* the triple of the pose rebuilds the rotation block of W, to rounding
Reconstructs(pose, W) ==
  /\ Len(pose) = 6
  /\ StdM(Reconstruct(pose[4], pose[5], pose[6])) = StdM(Rot(W))

\* W[0,0] and W[0,1] are 0 to rounding: the angles a1 and a3 are read from
\* what rounding leaves, and have no rational cosines
GimbalLock(W) == Std(At(W, 0, 0)) = R(0) /\ Std(At(W, 0, 1)) = R(0)

\* C2, as stated: some candidate of decompose_transformation(get_fk_solution(q))
\* carries an angle triple that rebuilds the rotation block.  (Stated off the
\* gimbal lock, where the rebuilt block is rational.)
C2_RoundTrip ==
  (kpc = "dec" /\ Len(kq) = n /\ ~GimbalLock(EndEffector)) =>
     \E i \in 1..Len(kposes) : Reconstructs(kposes[i], EndEffector)

\* C4, as stated: a joint vector of the wrong length ends get_fk_solution in
\* an error raised before any per-joint transform is evaluated
C4_FailFast ==
  (kpc \in {"fk", "jac", "dec", "raised"} /\ Len(kq) # n) =>
     /\ kfk.raised # "none"
     /\ kfk.evaluated = 0

(***************************************************************************)
(* Properties of the solve (Spec)                                          *)
(***************************************************************************)
\* C3, as stated: every evaluation of the vector field returns a
\* 6-component velocity
C3_Total ==
  last # None =>
    /\ last.out.raised = "none"
    /\ Len(last.out.value.lin) = n

\* C6, as stated: the gain is (last grid time - first grid time) / (number
\* of samples) of the grid passed to solve_motion
C6_GainFromGrid ==
  pc = "integrating" =>
    k = RDiv(R(tgrid[Len(tgrid)] - tgrid[1]), R(Len(tgrid)))

\* C9: an evaluation of the vector field leaves the target, the gain, the
\* default frames and its argument as they were, and returns what every
\* earlier evaluation at the same state returned, whatever the times and
\* whatever was evaluated in between
C9_Stateless ==
  [][ nevals' = nevals + 1 =>
        /\ x1' = x1
        /\ k' = k
        /\ fk_full_default' = fk_full_default
        /\ base_default' = base_default
        /\ yarg' = last'.y
        /\ \A i \in 1..Len(hist) : hist[i].y = last'.y => hist[i].out = last'.out ]_vars

\* a state evaluated, another state evaluated at a later time, and the first
\* state evaluated again at a time before that, each returning a velocity
C9_Witness ==
  /\ Len(hist) = 3
  /\ hist[3].y = hist[1].y /\ hist[2].y # hist[1].y
  /\ hist[1].t < hist[3].t /\ hist[3].t < hist[2].t
  /\ \A i \in 1..3 : hist[i].out.raised = "none"

\* C10, as stated: a solve ends by returning one joint vector per grid
\* sample, the first being q0
C10_FullGrid ==
  pc \in {"returned", "raised"} =>
    /\ pc = "returned"
    /\ Len(traj) = Len(tgrid)
    /\ traj[1] = y0

====
